---- MODULE Spec2Model ----
(***************************************************************************)
(* A model of the truthscore-llm experiment harness:                       *)
(*   experiments/inference_configs.py  VanillaLLM, RAG, SelfConsistency,   *)
(*                                     TruthScoreInference                 *)
(*   experiments/annotation.py         Annotator                           *)
(*   experiments/run_experiment.py     ExperimentRunner                    *)
(*   experiments/run_manual_experiment.py  ManualExperimentRunner          *)
(* Spec is the strategies and the annotator called one operation at a      *)
(* time; SpecRun is a run of a runner: run, annotate, summarize.           *)
(* Texts are TLA+ strings; Python's None is the empty tuple and a present  *)
(* optional value x is the one-element tuple <<x>>.  A Python dict is a    *)
(* record whose DOMAIN is its key set, except the Counter dict, whose      *)
(* insertion order matters and which is a sequence of [key, count] items.  *)
(***************************************************************************)
EXTENDS Integers, Sequences, FiniteSets, TLC

(***************************************************************************)
(* Bounds of the model.                                                    *)
(***************************************************************************)
\* largest num_samples a SelfConsistency object is constructed with
MaxSamples == 3

\* longest prompt list a runner is run on
MaxPrompts == 2

\* most external calls that raise in one run of a runner
MaxFailures == 1

\* most times summarize_results is called on the results of one run
MaxPasses == 2

VARIABLES
    client,        \* self.client is not None (OPENAI_AVAILABLE and an api key)
    num_samples,   \* SelfConsistency.num_samples
    base_config,   \* TruthScoreInference.base_config, by its method name
    pc,            \* "idle", "base", "sc_loop", "score", "returned", "raised"
    op,            \* the operation the caller invoked
    args,          \* its arguments
    samples,       \* the local `samples` of SelfConsistency.generate
    total_usage,   \* the local `total_usage` of SelfConsistency.generate
    base_result,   \* the local `base_result` of TruthScoreInference.generate
    result,        \* the value the invoked operation returned
    exc,           \* the exception that left the invoked operation
    calls,         \* the external calls issued so far by the invoked operation
    runner,        \* the runner constructed: "experiment", "manual", or ""
    rpc,           \* where its main is: "idle", "running", "ran", "annotated",
                   \*   "summarized", "aborted"
    prompts,       \* the `prompts` argument of the run
    answers,       \* the `answers` argument of run_with_answers
    ground_truth_map, \* the `ground_truth` argument of annotate_results
    partial,       \* the `results` dict run_single_prompt is building
    results,       \* the `results` list of the run
    annotated,     \* the list annotate_results returned
    summary,       \* the dict summarize_results returned
    passes         \* how many times summarize_results has returned

vars ==
    << client, num_samples, base_config, pc, op, args, samples, total_usage,
       base_result, result, exc, calls, runner, rpc, prompts, answers,
       ground_truth_map, partial, results, annotated, summary, passes >>

\* the variables of a run of an experiment runner
runVars ==
    << runner, rpc, prompts, answers, ground_truth_map, partial, results,
       annotated, summary, passes >>

\* the variables of one invoked operation
callVars == << pc, op, args, samples, total_usage, base_result, result >>

(***************************************************************************)
(* Text helpers: str.lower(), the `in` substring test, str(int).           *)
(***************************************************************************)
None == <<>>

Some(x) == <<x>>

Uppers == "ABCDEFGHIJKLMNOPQRSTUVWXYZ"

Lowers == "abcdefghijklmnopqrstuvwxyz"

\* str.lower() on one character
LowerChar(c) ==
    IF \E i \in 1..Len(Uppers) : SubSeq(Uppers, i, i) = c
    THEN LET i == CHOOSE j \in 1..Len(Uppers) : SubSeq(Uppers, j, j) = c
         IN  SubSeq(Lowers, i, i)
    ELSE c

RECURSIVE Lower(_)
\* str.lower()
Lower(s) == IF s = "" THEN "" ELSE LowerChar(Head(s)) \o Lower(Tail(s))

\* Python `m in s` for strings
StrIn(m, s) ==
    \E i \in 1..(Len(s) - Len(m) + 1) : SubSeq(s, i, i + Len(m) - 1) = m

DigitChars == "0123456789"

RECURSIVE IntToStr(_)
\* str(n) for n >= 0, as an f-string formats an int
IntToStr(n) ==
    IF n < 10 THEN SubSeq(DigitChars, n + 1, n + 1)
    ELSE IntToStr(n \div 10) \o SubSeq(DigitChars, (n % 10) + 1, (n % 10) + 1)

(***************************************************************************)
(* experiments/annotation.py                                               *)
(***************************************************************************)
CORRECT_ANSWER == "Correct Answer"

OVERCONFIDENT_ERROR == "Overconfident Error"

CORRECT_REFUSAL == "Correct Refusal"

HEDGED_BUT_INCORRECT == "Hedged but Incorrect"

OutcomeCategory ==
    {CORRECT_ANSWER, OVERCONFIDENT_ERROR, CORRECT_REFUSAL, HEDGED_BUT_INCORRECT}

hedging_markers ==
    << "maybe", "perhaps", "possibly", "might", "could", "uncertain",
       "unclear", "unknown", "probably", "likely", "seems", "appears",
       "suggest", "indicate", "may", "not sure", "uncertain" >>

refusal_markers ==
    << "cannot", "cannot provide", "unable to", "don't know",
       "no information", "insufficient", "not confident",
       "cannot answer", "unable to answer" >>

\* any(marker in answer_lower for marker in markers)
AnyMarkerIn(markers, answer_lower) ==
    \E k \in 1..Len(markers) : StrIn(markers[k], answer_lower)

\* detect_hedging with the answer searched as given, without .lower()
detect_hedging_case_sensitive(answer) == AnyMarkerIn(hedging_markers, answer)

detect_hedging(answer) ==
    LET answer_lower == Lower(answer)
    IN  AnyMarkerIn(hedging_markers, answer_lower)

detect_refusal(answer) ==
    LET answer_lower == Lower(answer)
    IN  AnyMarkerIn(refusal_markers, answer_lower)

\* annotate with the ground truth searched as given, without .lower()
annotate_case_sensitive(prompt, answer, ground_truth, is_correct, is_refusal, is_hedged) ==
    IF is_refusal
       /\ (ground_truth = None \/ StrIn("unknown", ground_truth[1]))
    THEN CORRECT_REFUSAL
    ELSE IF is_correct = Some(TRUE) /\ ~is_hedged /\ ~is_refusal
    THEN CORRECT_ANSWER
    ELSE IF is_correct = Some(FALSE) /\ ~is_hedged /\ ~is_refusal
    THEN OVERCONFIDENT_ERROR
    ELSE IF is_correct = Some(FALSE) /\ is_hedged
    THEN HEDGED_BUT_INCORRECT
    ELSE CORRECT_ANSWER

\* a chain that takes every refusal for a correct refusal
annotate_refusal_is_correct(prompt, answer, ground_truth, is_correct, is_refusal, is_hedged) ==
    IF is_refusal
    THEN CORRECT_REFUSAL
    ELSE IF is_correct = Some(TRUE) /\ ~is_hedged /\ ~is_refusal
    THEN CORRECT_ANSWER
    ELSE IF is_correct = Some(FALSE) /\ ~is_hedged /\ ~is_refusal
    THEN OVERCONFIDENT_ERROR
    ELSE IF is_correct = Some(FALSE) /\ is_hedged
    THEN HEDGED_BUT_INCORRECT
    ELSE CORRECT_ANSWER

\* a chain that takes an unknown is_correct for a wrong answer
annotate_unknown_is_wrong(prompt, answer, ground_truth, is_correct, is_refusal, is_hedged) ==
    IF is_refusal
       /\ (ground_truth = None \/ StrIn("unknown", Lower(ground_truth[1])))
    THEN CORRECT_REFUSAL
    ELSE IF is_correct = Some(TRUE) /\ ~is_hedged /\ ~is_refusal
    THEN CORRECT_ANSWER
    ELSE IF is_correct # Some(TRUE) /\ ~is_hedged /\ ~is_refusal
    THEN OVERCONFIDENT_ERROR
    ELSE IF is_correct # Some(TRUE) /\ is_hedged
    THEN HEDGED_BUT_INCORRECT
    ELSE CORRECT_ANSWER

\* Annotator.annotate: the chain of early returns, in source order.
\* ground_truth and is_correct are optionals (None or Some(value)).
annotate(prompt, answer, ground_truth, is_correct, is_refusal, is_hedged) ==
    IF is_refusal
       /\ (ground_truth = None \/ StrIn("unknown", Lower(ground_truth[1])))
    THEN CORRECT_REFUSAL
    ELSE IF is_correct = Some(TRUE) /\ ~is_hedged /\ ~is_refusal
    THEN CORRECT_ANSWER
    ELSE IF is_correct = Some(FALSE) /\ ~is_hedged /\ ~is_refusal
    THEN OVERCONFIDENT_ERROR
    ELSE IF is_correct = Some(FALSE) /\ is_hedged
    THEN HEDGED_BUT_INCORRECT
    ELSE CORRECT_ANSWER

(***************************************************************************)
(* The environment of experiments/inference_configs.py: the chat backend   *)
(* (client.chat.completions.create) and the scorer (TruthScorer.score).    *)
(* Both are external; every call either returns or raises.                 *)
(***************************************************************************)
RefusalTemplate ==
    "I cannot provide a confident answer to this question based on available evidence."

\* the prompts the harness is driven with
Prompts == {"What is 2+2?", "Could it rain?"}

\* response.choices[0].message.content of a successful backend call
Answers ==
    {"Maybe it rains", "Paris is the capital", "paris is the capital",
     "I cannot answer that", RefusalTemplate}

\* str(e) of an exception raised by a backend call
ErrorMessages == {"Connection error."}

\* response.usage of a successful backend call
ResponseUsage ==
    [prompt_tokens |-> 4, completion_tokens |-> 6, total_tokens |-> 10]

\* what one client.chat.completions.create call does: return or raise
GeneratorOutcomes ==
    [ok : {TRUE}, content : Answers, usage : {ResponseUsage}]
        \cup [ok : {FALSE}, error : ErrorMessages]

Decisions == {"ACCEPT", "QUALIFIED", "REFUSE"}

\* truth scores, in tenths
TruthScores == {2, 8}

\* what one scorer.score call does: return a score result or raise
ScorerOutcomes ==
    [ok : {TRUE}, score : [truth_score : TruthScores, decision : Decisions]]
        \cup [ok : {FALSE}, error : {"scorer failed"}]

model_name == "gpt-4o-mini"

BaseMethods == {"vanilla", "rag", "self_consistency"}

(***************************************************************************)
(* VanillaLLM.generate                                                     *)
(***************************************************************************)
VanillaResult(hasClient, prompt, outcome) ==
    IF ~hasClient
    THEN [answer |-> "[PLACEHOLDER] This is a simulated vanilla LLM response to: "
                        \o prompt,
          method |-> "vanilla",
          model |-> model_name,
          placeholder |-> TRUE]
    ELSE IF outcome.ok
    THEN [answer |-> outcome.content,
          method |-> "vanilla",
          model |-> model_name,
          placeholder |-> FALSE,
          usage |-> outcome.usage]
    ELSE [answer |-> "[ERROR] Failed to generate response: " \o outcome.error,
          method |-> "vanilla",
          model |-> model_name,
          error |-> outcome.error,
          placeholder |-> TRUE]

(***************************************************************************)
(* RAG._retrieve_documents and RAG.generate                                *)
(***************************************************************************)
retrieve_documents(query) ==
    << "Document 1 related to: " \o query,
       "Document 2 related to: " \o query,
       "Document 3 related to: " \o query >>

RAGResult(hasClient, prompt, outcome) ==
    LET retrieved_docs == retrieve_documents(prompt)
    IN  IF ~hasClient
        THEN [answer |-> "[PLACEHOLDER] RAG response to: " \o prompt \o " (with "
                            \o IntToStr(Len(retrieved_docs)) \o " retrieved docs)",
              method |-> "rag",
              model |-> model_name,
              retrieved_docs |-> Len(retrieved_docs),
              placeholder |-> TRUE]
        ELSE IF outcome.ok
        THEN [answer |-> outcome.content,
              method |-> "rag",
              model |-> model_name,
              retrieved_docs |-> Len(retrieved_docs),
              placeholder |-> FALSE,
              usage |-> outcome.usage]
        ELSE [answer |-> "[ERROR] Failed to generate RAG response: " \o outcome.error,
              method |-> "rag",
              model |-> model_name,
              error |-> outcome.error,
              placeholder |-> TRUE]

(***************************************************************************)
(* SelfConsistency                                                         *)
(***************************************************************************)
\* the index of key k in the Counter items, 0 when absent
IndexOfKey(items, k) ==
    IF \E i \in 1..Len(items) : items[i].key = k
    THEN CHOOSE i \in 1..Len(items) : items[i].key = k
    ELSE 0

RECURSIVE CounterItems(_)
\* collections.Counter(samples), as its items in insertion order: a key is
\* inserted at its first occurrence and counted up at every later one
CounterItems(xs) ==
    IF xs = <<>> THEN <<>>
    ELSE LET n     == Len(xs)
             items == CounterItems(SubSeq(xs, 1, n - 1))
             i     == IndexOfKey(items, xs[n])
         IN  IF i = 0
             THEN Append(items, [key |-> xs[n], count |-> 1])
             ELSE [items EXCEPT ![i].count = @ + 1]

\* an agreement table that lists every distinct sample once, uncounted
compute_agreement_uncounted(xs) ==
    LET items == CounterItems(xs)
    IN  [i \in 1..Len(items) |-> [key |-> items[i].key, count |-> 1]]

\* SelfConsistency._compute_agreement: dict(Counter(samples))
compute_agreement(xs) == CounterItems(xs)

\* a maximum that keeps the last of the items with the highest count
MaxByCountLast(items) ==
    LET i == CHOOSE j \in 1..Len(items) :
                 /\ \A k \in 1..Len(items) : items[k].count <= items[j].count
                 /\ \A k \in (j + 1)..Len(items) : items[k].count < items[j].count
    IN  items[i]

\* max(agreement.items(), key=lambda x: x[1]): the first item, in iteration
\* order, whose count no other item exceeds.  Only applied to non-empty items.
MaxByCount(items) ==
    LET i == CHOOSE j \in 1..Len(items) :
                 /\ \A k \in 1..Len(items) : items[k].count <= items[j].count
                 /\ \A k \in 1..(j - 1) : items[k].count < items[j].count
    IN  items[i]

\* the placeholder samples of the client-less path, for i in range(n)
PlaceholderSamples(n, prompt) ==
    [i \in 1..(IF n > 0 THEN n ELSE 0) |->
        "[PLACEHOLDER] Sample " \o IntToStr(i - 1) \o " answer to: " \o prompt]

\* the result of the client-less path (lines 261-273), given samples[0] exists
SCPlaceholderResult(n, prompt) ==
    LET smp == PlaceholderSamples(n, prompt)
    IN  [answer |-> smp[1],
         method |-> "self_consistency",
         model |-> model_name,
         samples |-> smp,
         num_samples |-> n,
         placeholder |-> TRUE]

\* the result after the sampling loop (lines 302-315), given non-empty samples
SCAggregateResult(n, smp, usage) ==
    LET agreement       == compute_agreement(smp)
        selected_answer == MaxByCount(agreement).key
    IN  [answer |-> selected_answer,
         method |-> "self_consistency",
         model |-> model_name,
         samples |-> smp,
         num_samples |-> n,
         agreement |-> agreement,
         placeholder |-> FALSE,
         usage |-> usage]

\* an except branch that forgets the error and placeholder markers
SCErrorResult_unmarked(msg) ==
    [answer |-> "[ERROR] Failed to generate self-consistency response: " \o msg,
     method |-> "self_consistency",
     model |-> model_name,
     placeholder |-> FALSE]

\* the except branch (lines 316-324)
SCErrorResult(msg) ==
    [answer |-> "[ERROR] Failed to generate self-consistency response: " \o msg,
     method |-> "self_consistency",
     model |-> model_name,
     error |-> msg,
     placeholder |-> TRUE]

\* str(e) of the ValueError max() raises on an empty agreement dict
EmptyMaxMessage == "max() arg is an empty sequence"

ZeroUsage == [prompt_tokens |-> 0, completion_tokens |-> 0, total_tokens |-> 0]

AddUsage(total, u) ==
    [prompt_tokens |-> total.prompt_tokens + u.prompt_tokens,
     completion_tokens |-> total.completion_tokens + u.completion_tokens,
     total_tokens |-> total.total_tokens + u.total_tokens]

(***************************************************************************)
(* TruthScoreInference.generate, after base_config.generate and            *)
(* scorer.score have returned                                              *)
(***************************************************************************)
\* dict.get(key, default)
DictGet(d, key, default) == IF key \in DOMAIN d THEN d[key] ELSE default

\* a gate that hands on the placeholder marker of the base result
TruthScoreResult_keeps_markers(base, score_result) ==
    [answer |-> IF score_result.decision = "REFUSE" THEN RefusalTemplate
                ELSE base.answer,
     method |-> "truthscore",
     base_method |-> DictGet(base, "method", "unknown"),
     truth_score |-> score_result.truth_score,
     decision |-> score_result.decision,
     refused |-> score_result.decision = "REFUSE",
     score_details |-> score_result,
     placeholder |-> DictGet(base, "placeholder", FALSE)]

\* a gate that marks the refusal but leaves the base answer in place
TruthScoreResult_keeps_answer(base, score_result) ==
    [answer |-> base.answer,
     method |-> "truthscore",
     base_method |-> DictGet(base, "method", "unknown"),
     truth_score |-> score_result.truth_score,
     decision |-> score_result.decision,
     refused |-> score_result.decision = "REFUSE",
     score_details |-> score_result]

\* a gate that lets only ACCEPT through
TruthScoreResult_accept_only(base, score_result) ==
    IF score_result.decision # "ACCEPT"
    THEN [answer |-> RefusalTemplate,
          method |-> "truthscore",
          base_method |-> DictGet(base, "method", "unknown"),
          truth_score |-> score_result.truth_score,
          decision |-> score_result.decision,
          refused |-> TRUE,
          score_details |-> score_result]
    ELSE [answer |-> base.answer,
          method |-> "truthscore",
          base_method |-> DictGet(base, "method", "unknown"),
          truth_score |-> score_result.truth_score,
          decision |-> score_result.decision,
          refused |-> FALSE,
          score_details |-> score_result]

TruthScoreResult(base, score_result) ==
    LET answer == base.answer
    IN  IF score_result.decision = "REFUSE"
        THEN [answer |-> RefusalTemplate,
              method |-> "truthscore",
              base_method |-> DictGet(base, "method", "unknown"),
              truth_score |-> score_result.truth_score,
              decision |-> "REFUSE",
              refused |-> TRUE,
              score_details |-> score_result]
        ELSE [answer |-> answer,
              method |-> "truthscore",
              base_method |-> DictGet(base, "method", "unknown"),
              truth_score |-> score_result.truth_score,
              decision |-> score_result.decision,
              refused |-> FALSE,
              score_details |-> score_result]

(***************************************************************************)
(* The state machine.  A caller invokes one operation at a time; an        *)
(* operation that issues external calls takes one step per call.           *)
(***************************************************************************)
\* the sample counts a SelfConsistency object may be constructed with:
\* __init__ stores num_samples as given
SampleCounts == (0 - 1)..MaxSamples

\* ground_truth arguments of annotate
GroundTruths ==
    {None, Some("unknown"), Some("The answer is Unknown."), Some("Paris"),
     Some("")}

\* is_correct arguments of annotate
Correctness == {None, Some(TRUE), Some(FALSE)}

RECURSIVE Upper(_)
\* an upper-case spelling of a text (used to build detector inputs)
Upper(s) ==
    IF s = "" THEN ""
    ELSE LET c == Head(s)
         IN  (IF \E i \in 1..Len(Lowers) : SubSeq(Lowers, i, i) = c
              THEN LET i == CHOOSE j \in 1..Len(Lowers) : SubSeq(Lowers, j, j) = c
                   IN  SubSeq(Uppers, i, i)
              ELSE c) \o Upper(Tail(s))

\* the words detector inputs are built around: every marker of both source
\* lists and near misses of them
DetectorWords ==
    {hedging_markers[k] : k \in 1..Len(hedging_markers)}
        \cup {refusal_markers[k] : k \in 1..Len(refusal_markers)}
        \cup {"mabye", "can not", "dont know", "unsure", "surely", "notsure",
              "ma y", "unable", "confident", "information", ""}

\* answer arguments of detect_hedging and detect_refusal
DetectorInputs ==
    Answers
        \cup {"It is definitely true", "MAYBE it rains", "i CanNot say",
              "It Might Be", "Not Sure about that"}
        \cup DetectorWords
        \cup {Upper(w) : w \in DetectorWords}
        \cup {"It is " \o w \o "." : w \in DetectorWords}

Init ==
    /\ client \in BOOLEAN
    /\ num_samples \in SampleCounts
    /\ base_config \in BaseMethods
    /\ pc = "idle"
    /\ op = ""
    /\ args = None
    /\ samples = <<>>
    /\ total_usage = ZeroUsage
    /\ base_result = None
    /\ result = None
    /\ exc = ""
    /\ calls = <<>>
    /\ runner = ""
    /\ rpc = "idle"
    /\ prompts = <<>>
    /\ answers = <<>>
    /\ ground_truth_map = None
    /\ partial = None
    /\ results = <<>>
    /\ annotated = <<>>
    /\ summary = None
    /\ passes = 0

config == << client, num_samples, base_config >>

\* generate(prompt) of strategy m starts: invoked by the caller, or by
\* TruthScoreInference.generate on its base_config (line 353)
Enter(m, p, gated) ==
    IF gated
    THEN /\ pc = "base"
         /\ base_config = m
         /\ p = args.prompt
         /\ UNCHANGED << op, args >>
    ELSE /\ pc = "idle"
         /\ op' = m
         /\ args' = [prompt |-> p]

\* generate returns r: to the caller, or into base_result (line 353)
Deliver(gated, r) ==
    IF gated
    THEN /\ base_result' = r
         /\ pc' = "score"
         /\ UNCHANGED << result, exc >>
    ELSE /\ result' = r
         /\ pc' = "returned"
         /\ UNCHANGED << base_result, exc >>

\* an exception leaves generate; TruthScoreInference.generate has no handler,
\* so it leaves the gate as well
Raise(e) ==
    /\ pc' = "raised"
    /\ exc' = e
    /\ UNCHANGED << result, base_result >>

\* a log entry: one client.chat.completions.create call and what it did
GeneratorCall(m, p, o) ==
    [to |-> "generator", by |-> m, prompt |-> p, outcome |-> o]

\* a log entry: one scorer.score call and what it did
ScorerCall(q, a, o) ==
    [to |-> "scorer", question |-> q, answer |-> a, outcome |-> o]

VanillaLLM_generate ==
    \E p \in Prompts, gated \in BOOLEAN, o \in GeneratorOutcomes :
        /\ Enter("vanilla", p, gated)
        /\ Deliver(gated, VanillaResult(client, p, o))
        /\ calls' = IF client THEN Append(calls, GeneratorCall("vanilla", p, o))
                    ELSE calls
        /\ UNCHANGED << config, samples, total_usage >>
        /\ UNCHANGED runVars

RAG_generate ==
    \E p \in Prompts, gated \in BOOLEAN, o \in GeneratorOutcomes :
        /\ Enter("rag", p, gated)
        /\ Deliver(gated, RAGResult(client, p, o))
        /\ calls' = IF client THEN Append(calls, GeneratorCall("rag", p, o))
                    ELSE calls
        /\ UNCHANGED << config, samples, total_usage >>
        /\ UNCHANGED runVars

\* SelfConsistency.generate up to its first backend call (lines 261-280)
SelfConsistency_generate ==
    \E p \in Prompts, gated \in BOOLEAN :
        /\ Enter("self_consistency", p, gated)
        /\ IF ~client
           THEN \* samples[0] of an empty list raises IndexError outside the try
                /\ IF num_samples <= 0
                   THEN Raise("IndexError")
                   ELSE Deliver(gated, SCPlaceholderResult(num_samples, p))
                /\ UNCHANGED << samples, total_usage >>
           ELSE IF num_samples <= 0
           THEN \* range() is empty, max() of an empty dict raises inside the try
                /\ Deliver(gated, SCErrorResult(EmptyMaxMessage))
                /\ UNCHANGED << samples, total_usage >>
           ELSE /\ pc' = "sc_loop"
                /\ samples' = <<>>
                /\ total_usage' = ZeroUsage
                /\ UNCHANGED << result, base_result, exc >>
        /\ UNCHANGED << config, calls >>
        /\ UNCHANGED runVars

\* a sampling loop whose except branch aggregates the samples collected so far
SelfConsistency_sample_partial ==
    \E o \in GeneratorOutcomes :
        /\ pc = "sc_loop"
        /\ calls' = Append(calls, GeneratorCall("self_consistency", args.prompt, o))
        /\ IF ~o.ok
           THEN /\ Deliver(op = "truthscore",
                           IF samples = <<>> THEN SCErrorResult(o.error)
                           ELSE SCAggregateResult(num_samples, samples, total_usage))
                /\ samples' = <<>>
                /\ total_usage' = ZeroUsage
           ELSE LET smp   == Append(samples, o.content)
                    usage == AddUsage(total_usage, o.usage)
                IN  IF Len(smp) = num_samples
                    THEN /\ Deliver(op = "truthscore",
                                    SCAggregateResult(num_samples, smp, usage))
                         /\ samples' = <<>>
                         /\ total_usage' = ZeroUsage
                    ELSE /\ samples' = smp
                         /\ total_usage' = usage
                         /\ UNCHANGED << pc, result, base_result, exc >>
        /\ UNCHANGED << config, op, args >>
        /\ UNCHANGED runVars

\* one iteration of the sampling loop (lines 280-300); the last one goes on
\* to aggregate and return (lines 302-315), a failing one to the except
\* branch (lines 316-324)
SelfConsistency_sample ==
    \E o \in GeneratorOutcomes :
        /\ pc = "sc_loop"
        /\ calls' = Append(calls, GeneratorCall("self_consistency", args.prompt, o))
        /\ IF ~o.ok
           THEN /\ Deliver(op = "truthscore", SCErrorResult(o.error))
                /\ samples' = <<>>
                /\ total_usage' = ZeroUsage
           ELSE LET smp   == Append(samples, o.content)
                    usage == AddUsage(total_usage, o.usage)
                IN  IF Len(smp) = num_samples
                    THEN /\ Deliver(op = "truthscore",
                                    SCAggregateResult(num_samples, smp, usage))
                         /\ samples' = <<>>
                         /\ total_usage' = ZeroUsage
                    ELSE /\ samples' = smp
                         /\ total_usage' = usage
                         /\ UNCHANGED << pc, result, base_result, exc >>
        /\ UNCHANGED << config, op, args >>
        /\ UNCHANGED runVars

\* TruthScoreInference.generate is invoked and calls base_config.generate
TruthScoreInference_generate ==
    \E p \in Prompts :
        /\ pc = "idle"
        /\ op' = "truthscore"
        /\ args' = [prompt |-> p]
        /\ pc' = "base"
        /\ UNCHANGED << config, samples, total_usage, base_result, result, exc,
                        calls >>
        /\ UNCHANGED runVars

\* base_config.generate has returned: scorer.score is called (line 357) and
\* the gated result is built (lines 360-379)
TruthScoreInference_score ==
    \E o \in ScorerOutcomes :
        /\ pc = "score"
        /\ calls' = Append(calls, ScorerCall(args.prompt, base_result.answer, o))
        /\ IF o.ok
           THEN /\ result' = TruthScoreResult(base_result, o.score)
                /\ pc' = "returned"
                /\ UNCHANGED << base_result, exc >>
           ELSE Raise("ScorerError")
        /\ UNCHANGED << config, op, args, samples, total_usage >>
        /\ UNCHANGED runVars

Annotator_annotate ==
    \E p \in Prompts, a \in {"Paris is the capital"}, gt \in GroundTruths,
       ic \in Correctness, r \in BOOLEAN, h \in BOOLEAN :
        /\ pc = "idle"
        /\ op' = "annotate"
        /\ args' = [prompt |-> p, answer |-> a, ground_truth |-> gt,
                    is_correct |-> ic, is_refusal |-> r, is_hedged |-> h]
        /\ result' = annotate(p, a, gt, ic, r, h)
        /\ pc' = "returned"
        /\ UNCHANGED << config, samples, total_usage, base_result, exc, calls >>
        /\ UNCHANGED runVars

Annotator_detect_hedging ==
    \E a \in DetectorInputs :
        /\ pc = "idle"
        /\ op' = "detect_hedging"
        /\ args' = [answer |-> a]
        /\ result' = detect_hedging(a)
        /\ pc' = "returned"
        /\ UNCHANGED << config, samples, total_usage, base_result, exc, calls >>
        /\ UNCHANGED runVars

Annotator_detect_refusal ==
    \E a \in DetectorInputs :
        /\ pc = "idle"
        /\ op' = "detect_refusal"
        /\ args' = [answer |-> a]
        /\ result' = detect_refusal(a)
        /\ pc' = "returned"
        /\ UNCHANGED << config, samples, total_usage, base_result, exc, calls >>
        /\ UNCHANGED runVars

\* the caller has taken the result (or the exception) and may invoke again
Return ==
    /\ pc \in {"returned", "raised"}
    /\ pc' = "idle"
    /\ op' = ""
    /\ args' = None
    /\ samples' = <<>>
    /\ total_usage' = ZeroUsage
    /\ base_result' = None
    /\ result' = None
    /\ exc' = ""
    /\ calls' = <<>>
    /\ UNCHANGED config
    /\ UNCHANGED runVars

Next ==
    \/ VanillaLLM_generate
    \/ RAG_generate
    \/ SelfConsistency_generate
    \/ SelfConsistency_sample
    \/ TruthScoreInference_generate
    \/ TruthScoreInference_score
    \/ Annotator_annotate
    \/ Annotator_detect_hedging
    \/ Annotator_detect_refusal
    \/ Return

Spec == Init /\ [][Next]_vars

(***************************************************************************)
(* experiments/run_experiment.py (ExperimentRunner) and                    *)
(* experiments/run_manual_experiment.py (ManualExperimentRunner):          *)
(* annotate_results and summarize_results.                                 *)
(***************************************************************************)
\* `methods`, in the order both runners loop over them
Methods == << "vanilla", "rag", "self_consistency", "truthscore" >>

MethodSet == {Methods[i] : i \in 1..Len(Methods)}

\* SelfConsistency(num_samples=5) of ExperimentRunner.__init__
runner_num_samples == 5

\* what the backend answers during a run
RunAnswers == {"Paris is the capital"}

RunGeneratorOutcomes == {o \in GeneratorOutcomes : o.ok => o.content \in RunAnswers}

\* what the scorer returns during a run
RunScores ==
    {[truth_score |-> 8, decision |-> "ACCEPT"],
     [truth_score |-> 8, decision |-> "QUALIFIED"],
     [truth_score |-> 2, decision |-> "REFUSE"]}

RunScorerOutcomes == {o \in ScorerOutcomes : o.ok => o.score \in RunScores}

\* the `prompts` arguments
PromptLists == UNION {[1..n -> Prompts] : n \in 0..MaxPrompts}

\* the per-prompt entries of the `answers` argument of run_with_answers
ManualRows ==
    {[vanilla |-> "Paris is the capital", rag |-> "Paris is the capital",
      self_consistency |-> "Paris is the capital",
      truthscore |-> "Paris is the capital"],
     [vanilla |-> "Maybe it rains", rag |-> "",
      self_consistency |-> "I cannot answer that",
      truthscore |-> RefusalTemplate],
     [vanilla |-> "", rag |-> "", self_consistency |-> "", truthscore |-> ""],
     [vanilla |-> "Maybe it rains"]}

\* the `answers` arguments: prompt -> method -> answer
AnswerMaps == UNION {[D -> ManualRows] : D \in SUBSET Prompts}

\* the per-prompt entries of the `ground_truth` argument of annotate_results
GtInfos ==
    {[answer |-> "Paris", is_correct |-> TRUE],
     [answer |-> "Paris", is_correct |-> FALSE],
     [answer |-> "Unknown"]}

\* the `ground_truth` arguments: None, or prompt -> ground truth info
GroundTruthMaps ==
    {None} \cup {Some(g) : g \in UNION {[D -> GtInfos] : D \in SUBSET Prompts}}

\* every answer text a result of a run can hold
AnswerTexts ==
    {RefusalTemplate, ""}
        \cup {o.content : o \in {g \in RunGeneratorOutcomes : g.ok}}
        \cup UNION {{VanillaResult(c, p, o).answer, RAGResult(c, p, o).answer} :
                        c \in BOOLEAN, p \in Prompts,
                        o \in {g \in RunGeneratorOutcomes : ~g.ok}}
        \cup {SCErrorResult(o.error).answer : o \in {g \in RunGeneratorOutcomes : ~g.ok}}
        \cup {SCPlaceholderResult(runner_num_samples, p).answer : p \in Prompts}
        \cup UNION {{row[m] : m \in DOMAIN row} : row \in ManualRows}

\* self.annotator.detect_refusal(answer) and detect_hedging(answer) of each
\* answer text
AnswerMarks ==
    [a \in AnswerTexts |->
        [is_refusal |-> detect_refusal(a), is_hedged |-> detect_hedging(a)]]

\* d.get(key) of an optional entry: None when the key is missing
DictGetOpt(d, key) == IF key \in DOMAIN d THEN Some(d[key]) ELSE None

\* the body of the method loop of annotate_results: the annotation entry of
\* one answer (the two detectors are looked up in AnswerMarks)
AnnotationEntry(prompt, answer, gt_info) ==
    LET is_refusal == AnswerMarks[answer].is_refusal
        is_hedged  == AnswerMarks[answer].is_hedged
        category   == annotate(prompt, answer, DictGetOpt(gt_info, "answer"),
                               DictGetOpt(gt_info, "is_correct"),
                               is_refusal, is_hedged)
    IN  [category |-> category, is_refusal |-> is_refusal,
         is_hedged |-> is_hedged]

\* ground_truth.get(prompt, {}) after `if ground_truth is None`
GtInfo(gt, prompt) == IF gt = None THEN <<>> ELSE DictGet(gt[1], prompt, <<>>)

\* ExperimentRunner.annotate_results
annotate_results(rs, gt) ==
    [i \in 1..Len(rs) |->
        LET prompt  == rs[i].prompt
            gt_info == GtInfo(gt, prompt)
        IN  rs[i] @@
            [annotations |->
                [method \in MethodSet |->
                    AnnotationEntry(prompt, rs[i][method].answer, gt_info)]]]

\* a manual annotation that gives an empty answer an entry as well
manual_annotate_results_unskipped(rs, gt) == annotate_results(rs, gt)

\* ManualExperimentRunner.annotate_results: an empty answer is skipped
manual_annotate_results(rs, gt) ==
    [i \in 1..Len(rs) |->
        LET prompt  == rs[i].prompt
            gt_info == GtInfo(gt, prompt)
        IN  rs[i] @@
            [annotations |->
                [method \in {m \in MethodSet : rs[i][m].answer # ""} |->
                    AnnotationEntry(prompt, rs[i][method].answer, gt_info)]]]

\* counts that start from what the previous summary held
InitialCounts_accumulating(method) ==
    IF summary = None THEN [cat \in OutcomeCategory |-> 0]
    ELSE summary.by_method[method]

\* {cat: 0 for cat in categories}
InitialCounts(method) == [cat \in OutcomeCategory |-> 0]

RECURSIVE CountCategories_vanilla(_, _, _, _)
\* a result loop that reads the vanilla annotation whatever the method
CountCategories_vanilla(counts, ar, method, i) ==
    IF i > Len(ar) THEN counts
    ELSE LET category == ar[i].annotations["vanilla"].category
         IN  CountCategories_vanilla([counts EXCEPT ![category] = @ + 1], ar,
                                     method, i + 1)

RECURSIVE CountCategories(_, _, _, _)
\* the loop `for result in annotated_results` of ExperimentRunner, from the
\* i-th result on
CountCategories(counts, ar, method, i) ==
    IF i > Len(ar) THEN counts
    ELSE LET category == ar[i].annotations[method].category
         IN  CountCategories([counts EXCEPT ![category] = @ + 1], ar, method,
                             i + 1)

RECURSIVE ManualCountCategories(_, _, _, _)
\* the same loop of ManualExperimentRunner: `if method in annotations`
ManualCountCategories(counts, ar, method, i) ==
    IF i > Len(ar) THEN counts
    ELSE IF method \in DOMAIN ar[i].annotations
    THEN LET category == ar[i].annotations[method].category
         IN  ManualCountCategories([counts EXCEPT ![category] = @ + 1], ar,
                                   method, i + 1)
    ELSE ManualCountCategories(counts, ar, method, i + 1)

\* a by_category table that lists only the methods with a count
ByCategory_nonzero(by_method) ==
    [category \in OutcomeCategory |->
        [method \in {m \in MethodSet : by_method[m][category] > 0} |->
            by_method[method][category]]]

\* the loop `for category in categories: for method in methods`
ByCategory(by_method) ==
    [category \in OutcomeCategory |->
        [method \in MethodSet |-> by_method[method][category]]]

\* ExperimentRunner.summarize_results
summarize_results(ar) ==
    LET by_method ==
            [method \in MethodSet |->
                CountCategories(InitialCounts(method), ar, method, 1)]
    IN  [total_prompts |-> Len(ar),
         by_method |-> by_method,
         by_category |-> ByCategory(by_method)]

\* ManualExperimentRunner.summarize_results
manual_summarize_results(ar) ==
    LET by_method ==
            [method \in MethodSet |->
                ManualCountCategories(InitialCounts(method), ar, method, 1)]
    IN  [total_prompts |-> Len(ar),
         by_method |-> by_method,
         by_category |-> ByCategory(by_method)]

(***************************************************************************)
(* The runs of the two runners.  ExperimentRunner.run_single_prompt takes  *)
(* one step per strategy it calls; ManualExperimentRunner.run_with_answers *)
(* takes one step per prompt.                                              *)
(***************************************************************************)
InitRun ==
    /\ runner \in {"experiment", "manual"}
    /\ client \in (IF runner = "experiment" THEN BOOLEAN ELSE {FALSE})
    /\ num_samples = runner_num_samples
    /\ base_config = "vanilla"
    /\ pc = "idle"
    /\ op = ""
    /\ args = None
    /\ samples = <<>>
    /\ total_usage = ZeroUsage
    /\ base_result = None
    /\ result = None
    /\ exc = ""
    /\ calls = <<>>
    /\ rpc = "idle"
    /\ prompts = <<>>
    /\ answers = <<>>
    /\ ground_truth_map = None
    /\ partial = None
    /\ results = <<>>
    /\ annotated = <<>>
    /\ summary = None
    /\ passes = 0

\* the external calls of the run that raised
Failures == {i \in 1..Len(calls) : ~calls[i].outcome.ok}

\* a sequence of external calls may be issued: the raising ones stay in bound
MayIssue(cs) ==
    Cardinality(Failures) + Cardinality({i \in 1..Len(cs) : ~cs[i].outcome.ok})
        <= MaxFailures

\* `results.append(result)` and the step of the prompt loop of run_all_prompts
AppendResult(r) ==
    /\ results' = Append(results, r)
    /\ IF Len(results) + 1 = Len(prompts)
       THEN /\ rpc' = "ran"
            /\ partial' = None
       ELSE /\ rpc' = "running"
            /\ partial' = IF runner = "experiment"
                          THEN [prompt |-> prompts[Len(results) + 2]]
                          ELSE None

\* run_all_prompts is called: the loop starts with the first prompt
ExperimentRunner_run_all_prompts ==
    \E ps \in PromptLists :
        /\ runner = "experiment"
        /\ rpc = "idle"
        /\ prompts' = ps
        /\ results' = <<>>
        /\ IF ps = <<>>
           THEN /\ rpc' = "ran"
                /\ partial' = None
           ELSE /\ rpc' = "running"
                /\ partial' = [prompt |-> ps[1]]
        /\ UNCHANGED << config, callVars, exc, calls, answers, runner,
                        ground_truth_map, annotated, summary, passes >>

\* "vanilla": self.vanilla.generate(prompt)
run_single_prompt_vanilla ==
    \E o \in RunGeneratorOutcomes :
        LET cs == IF client
                  THEN << GeneratorCall("vanilla", partial.prompt, o) >>
                  ELSE <<>>
        IN  /\ runner = "experiment"
            /\ rpc = "running"
            /\ DOMAIN partial = {"prompt"}
            /\ MayIssue(cs)
            /\ calls' = calls \o cs
            /\ partial' = partial @@
                    [vanilla |-> VanillaResult(client, partial.prompt, o)]
            /\ UNCHANGED << config, callVars, exc, runner, rpc, prompts,
                            answers, ground_truth_map, results, annotated,
                            summary, passes >>

\* "rag": self.rag.generate(prompt)
run_single_prompt_rag ==
    \E o \in RunGeneratorOutcomes :
        LET cs == IF client
                  THEN << GeneratorCall("rag", partial.prompt, o) >>
                  ELSE <<>>
        IN  /\ runner = "experiment"
            /\ rpc = "running"
            /\ DOMAIN partial = {"prompt", "vanilla"}
            /\ MayIssue(cs)
            /\ calls' = calls \o cs
            /\ partial' = partial @@
                    [rag |-> RAGResult(client, partial.prompt, o)]
            /\ UNCHANGED << config, callVars, exc, runner, rpc, prompts,
                            answers, ground_truth_map, results, annotated,
                            summary, passes >>

\* the backend calls of one SelfConsistency.generate with a client: all
\* num_samples calls return, or a call raises and ends the loop
SampleRuns ==
    [1..num_samples -> {o \in RunGeneratorOutcomes : o.ok}]
        \cup UNION {{Append(pre, o) :
                        pre \in [1..(k - 1) -> {g \in RunGeneratorOutcomes : g.ok}],
                        o \in {g \in RunGeneratorOutcomes : ~g.ok}} :
                    k \in 1..num_samples}

RECURSIVE SumUsage(_)
\* total_usage after the sampling loop
SumUsage(outs) ==
    IF outs = <<>> THEN ZeroUsage
    ELSE AddUsage(SumUsage(SubSeq(outs, 1, Len(outs) - 1)), outs[Len(outs)].usage)

\* "self_consistency": self.self_consistency.generate(prompt)
run_single_prompt_self_consistency ==
    \E outs \in SampleRuns :
        LET prompt == partial.prompt
            cs == IF client
                  THEN [i \in 1..Len(outs) |->
                           GeneratorCall("self_consistency", prompt, outs[i])]
                  ELSE <<>>
            r  == IF ~client THEN SCPlaceholderResult(num_samples, prompt)
                  ELSE IF ~outs[Len(outs)].ok
                  THEN SCErrorResult(outs[Len(outs)].error)
                  ELSE SCAggregateResult(num_samples,
                                         [i \in 1..Len(outs) |-> outs[i].content],
                                         SumUsage(outs))
        IN  /\ runner = "experiment"
            /\ rpc = "running"
            /\ DOMAIN partial = {"prompt", "vanilla", "rag"}
            /\ MayIssue(cs)
            /\ calls' = calls \o cs
            /\ partial' = partial @@ [self_consistency |-> r]
            /\ UNCHANGED << config, callVars, exc, runner, rpc, prompts,
                            answers, ground_truth_map, results, annotated,
                            summary, passes >>

\* a gate that scores the answer already recorded under "vanilla"
run_single_prompt_truthscore_reusing ==
    \E so \in RunScorerOutcomes :
        LET prompt == partial.prompt
            base   == partial.vanilla
            cs     == << ScorerCall(prompt, base.answer, so) >>
        IN  /\ runner = "experiment"
            /\ rpc = "running"
            /\ DOMAIN partial = {"prompt", "vanilla", "rag", "self_consistency"}
            /\ MayIssue(cs)
            /\ calls' = calls \o cs
            /\ IF so.ok
               THEN /\ AppendResult(partial @@
                            [truthscore |-> TruthScoreResult(base, so.score)])
                    /\ exc' = exc
               ELSE /\ exc' = "ScorerError"
                    /\ rpc' = "aborted"
                    /\ UNCHANGED << partial, results >>
            /\ UNCHANGED << config, callVars, runner, prompts, answers,
                            ground_truth_map, annotated, summary, passes >>

\* "truthscore": self.truthscore.generate(prompt), the gate over self.vanilla;
\* then run_single_prompt returns and run_all_prompts appends the result
run_single_prompt_truthscore ==
    \E o \in RunGeneratorOutcomes, so \in RunScorerOutcomes :
        LET prompt == partial.prompt
            base   == VanillaResult(client, prompt, o)
            cs == (IF client THEN << GeneratorCall("vanilla", prompt, o) >>
                   ELSE <<>>) \o << ScorerCall(prompt, base.answer, so) >>
        IN  /\ runner = "experiment"
            /\ rpc = "running"
            /\ DOMAIN partial = {"prompt", "vanilla", "rag", "self_consistency"}
            /\ MayIssue(cs)
            /\ calls' = calls \o cs
            /\ IF so.ok
               THEN /\ AppendResult(partial @@
                            [truthscore |-> TruthScoreResult(base, so.score)])
                    /\ exc' = exc
               ELSE \* no handler in generate, run_single_prompt, run_all_prompts
                    /\ exc' = "ScorerError"
                    /\ rpc' = "aborted"
                    /\ UNCHANGED << partial, results >>
            /\ UNCHANGED << config, callVars, runner, prompts, answers,
                            ground_truth_map, annotated, summary, passes >>

\* run_with_answers is called
ManualExperimentRunner_run_with_answers ==
    \E ps \in PromptLists, am \in AnswerMaps :
        /\ runner = "manual"
        /\ rpc = "idle"
        /\ prompts' = ps
        /\ answers' = am
        /\ results' = <<>>
        /\ rpc' = IF ps = <<>> THEN "ran" ELSE "running"
        /\ UNCHANGED << config, callVars, exc, calls, runner, partial,
                        ground_truth_map, annotated, summary, passes >>

\* answers.get(prompt, {}).get(method, "")
SuppliedAnswer(am, prompt, method) ==
    DictGet(DictGet(am, prompt, <<>>), method, "")

\* one iteration of the prompt loop of run_with_answers
run_with_answers_prompt ==
    \E so \in RunScorerOutcomes :
        LET prompt == prompts[Len(results) + 1]
            r == [prompt |-> prompt,
                  vanilla |-> [answer |-> SuppliedAnswer(answers, prompt, "vanilla")],
                  rag |-> [answer |-> SuppliedAnswer(answers, prompt, "rag")],
                  self_consistency |->
                      [answer |-> SuppliedAnswer(answers, prompt, "self_consistency")],
                  truthscore |->
                      [answer |-> SuppliedAnswer(answers, prompt, "truthscore")]]
            truthscore_answer == r.truthscore.answer
            cs == IF truthscore_answer # ""
                  THEN << ScorerCall(prompt, truthscore_answer, so) >>
                  ELSE <<>>
        IN  /\ runner = "manual"
            /\ rpc = "running"
            /\ MayIssue(cs)
            /\ calls' = calls \o cs
            /\ IF truthscore_answer = ""
               THEN /\ AppendResult(r)
                    /\ exc' = exc
               ELSE IF so.ok
               THEN /\ AppendResult(
                          [r EXCEPT !.truthscore = @ @@
                              [truth_score |-> so.score.truth_score,
                               decision |-> so.score.decision,
                               score_details |-> so.score]])
                    /\ exc' = exc
               ELSE /\ exc' = "ScorerError"
                    /\ rpc' = "aborted"
                    /\ UNCHANGED << partial, results >>
            /\ UNCHANGED << config, callVars, runner, prompts, answers,
                            ground_truth_map, annotated, summary, passes >>

\* annotate_results(results, ground_truth) is called on the results of the
\* run; a later call is on the same results with the same ground truth
ExperimentRunner_annotate_results ==
    \E gt \in GroundTruthMaps :
        /\ runner = "experiment"
        /\ rpc \in {"ran", "summarized"}
        /\ rpc = "summarized" => (gt = ground_truth_map /\ passes < MaxPasses)
        /\ ground_truth_map' = gt
        /\ annotated' = annotate_results(results, gt)
        /\ rpc' = "annotated"
        /\ UNCHANGED << config, callVars, exc, calls, runner, prompts, answers,
                        partial, results, summary, passes >>

ManualExperimentRunner_annotate_results ==
    \E gt \in GroundTruthMaps :
        /\ runner = "manual"
        /\ rpc \in {"ran", "summarized"}
        /\ rpc = "summarized" => (gt = ground_truth_map /\ passes < MaxPasses)
        /\ ground_truth_map' = gt
        /\ annotated' = manual_annotate_results(results, gt)
        /\ rpc' = "annotated"
        /\ UNCHANGED << config, callVars, exc, calls, runner, prompts, answers,
                        partial, results, summary, passes >>

\* summarize_results(annotated) is called, for the first time or again
ExperimentRunner_summarize_results ==
    /\ runner = "experiment"
    /\ rpc \in {"annotated", "summarized"}
    /\ passes < MaxPasses
    /\ summary' = summarize_results(annotated)
    /\ passes' = passes + 1
    /\ rpc' = "summarized"
    /\ UNCHANGED << config, callVars, exc, calls, runner, prompts, answers,
                    ground_truth_map, partial, results, annotated >>

ManualExperimentRunner_summarize_results ==
    /\ runner = "manual"
    /\ rpc \in {"annotated", "summarized"}
    /\ passes < MaxPasses
    /\ summary' = manual_summarize_results(annotated)
    /\ passes' = passes + 1
    /\ rpc' = "summarized"
    /\ UNCHANGED << config, callVars, exc, calls, runner, prompts, answers,
                    ground_truth_map, partial, results, annotated >>

NextRun ==
    \/ ExperimentRunner_run_all_prompts
    \/ run_single_prompt_vanilla
    \/ run_single_prompt_rag
    \/ run_single_prompt_self_consistency
    \/ run_single_prompt_truthscore
    \/ ManualExperimentRunner_run_with_answers
    \/ run_with_answers_prompt
    \/ ExperimentRunner_annotate_results
    \/ ManualExperimentRunner_annotate_results
    \/ ExperimentRunner_summarize_results
    \/ ManualExperimentRunner_summarize_results

SpecRun == InitRun /\ [][NextRun]_vars

(***************************************************************************)
(* Notions the properties below are stated with.  They are defined from    *)
(* the sample sequence and the call log alone, not from the operators      *)
(* above.                                                                  *)
(***************************************************************************)
\* the results of SelfConsistency.generate the state holds: returned to the
\* caller, or to TruthScoreInference.generate as its base result
SCOutput ==
    IF op = "self_consistency" /\ pc = "returned" THEN {result}
    ELSE IF op = "truthscore" /\ base_config = "self_consistency"
            /\ pc \in {"score", "returned"} THEN {base_result}
    ELSE {}

\* the number of occurrences of a in the sequence s
Occurrences(a, s) == Cardinality({i \in 1..Len(s) : s[i] = a})

\* the position of the first occurrence of a in s
FirstOccurrence(a, s) ==
    CHOOSE i \in 1..Len(s) : s[i] = a /\ \A j \in 1..(i - 1) : s[j] # a

RECURSIVE SumCounts(_)
SumCounts(items) ==
    IF items = <<>> THEN 0 ELSE Head(items).count + SumCounts(Tail(items))

\* the generator calls of the log that raised
FailedGeneratorCalls ==
    {i \in 1..Len(calls) : calls[i].to = "generator" /\ ~calls[i].outcome.ok}

\* the scorer call TruthScoreInference.generate has made, if any
ScorerCalls == {i \in 1..Len(calls) : calls[i].to = "scorer"}

\* r is an error result of strategy m
IsErrorResult(r, m) ==
    /\ "error" \in DOMAIN r
    /\ Len(r.answer) > 8
    /\ SubSeq(r.answer, 1, 8) = "[ERROR] "
    /\ r.placeholder = TRUE
    /\ r.method = m

\* the gate has returned a result built on the score the scorer returned
GateReturned ==
    /\ op = "truthscore"
    /\ pc = "returned"
    /\ ScorerCalls # {}

ScoreReturned == calls[Len(calls)].outcome.score

(***************************************************************************)
(* C1.  The answer SelfConsistency.generate returns occurs in the sample   *)
(* sequence at least as often as every other sample, and every other       *)
(* sample that occurs as often occurs first at a later position.  (This    *)
(* fixes the answer uniquely, so equal sample sequences give equal         *)
(* answers.)                                                               *)
(***************************************************************************)
C1_MajorityEarliestTie ==
    \A r \in SCOutput :
        ("samples" \in DOMAIN r /\ r.samples # <<>>) =>
            /\ \E i \in 1..Len(r.samples) : r.samples[i] = r.answer
            /\ \A i \in 1..Len(r.samples) :
                 LET b == r.samples[i]
                 IN  /\ Occurrences(b, r.samples) <= Occurrences(r.answer, r.samples)
                     /\ (b # r.answer
                           /\ Occurrences(b, r.samples) = Occurrences(r.answer, r.samples))
                          => FirstOccurrence(r.answer, r.samples)
                                < FirstOccurrence(b, r.samples)

\* an aggregation over three samples in which the first sample occurs once
\* and ties with a later, different one
C1_Witness ==
    \E r \in SCOutput :
        /\ "agreement" \in DOMAIN r
        /\ Len(r.samples) = 3
        /\ r.samples[1] # r.samples[2]
        /\ r.samples[3] # r.samples[1]
        /\ r.samples[3] # r.samples[2]
        /\ r.answer = r.samples[1]

(***************************************************************************)
(* C2.  In every aggregation the agreement table has one entry per         *)
(* distinct sample (exact string equality), the entry's count is the       *)
(* number of occurrences of that sample, and the counts sum to N.          *)
(***************************************************************************)
C2_AgreementCounts ==
    \A r \in SCOutput :
        "agreement" \in DOMAIN r =>
            LET t == r.agreement
            IN  /\ \A i, j \in 1..Len(t) : t[i].key = t[j].key => i = j
                /\ {t[i].key : i \in 1..Len(t)}
                      = {r.samples[i] : i \in 1..Len(r.samples)}
                /\ \A i \in 1..Len(t) :
                      t[i].count = Occurrences(t[i].key, r.samples)
                /\ SumCounts(t) = num_samples
                /\ Len(r.samples) = num_samples

\* an aggregation whose table has two entries that differ only in case, one
\* of them counted twice
C2_Witness ==
    \E r \in SCOutput :
        /\ "agreement" \in DOMAIN r
        /\ Len(r.agreement) = 2
        /\ r.agreement[1].key # r.agreement[2].key
        /\ Lower(r.agreement[1].key) = Lower(r.agreement[2].key)
        /\ \E i \in 1..2 : r.agreement[i].count = 2

(***************************************************************************)
(* C3 (as claimed).  Every result of SelfConsistency.generate that is not  *)
(* an error result carries the answer, the samples and the agreement       *)
(* table, with or without a backend.                                       *)
(***************************************************************************)
C3_AllThreeKept ==
    \A r \in SCOutput :
        "error" \notin DOMAIN r =>
            {"answer", "samples", "agreement"} \subseteq DOMAIN r

(***************************************************************************)
(* C4 (as claimed).  With num_samples <= 0 no SelfConsistency.generate     *)
(* call is ever evaluated: none returns a result, none raises.             *)
(***************************************************************************)
SCEvaluated ==
    \/ op = "self_consistency" /\ pc \in {"sc_loop", "returned", "raised"}
    \/ /\ op = "truthscore" /\ base_config = "self_consistency"
       /\ pc \in {"sc_loop", "score", "returned", "raised"}

\* C4 (as claimed): with num_samples <= 0, generate is never evaluated
C4_NoEvaluationWithoutSamples == num_samples <= 0 => ~SCEvaluated

(***************************************************************************)
(* C5.  Once a backend call of VanillaLLM, RAG or SelfConsistency has      *)
(* raised, generate has not raised: it has returned an error result        *)
(* ("[ERROR] ..." answer, the error key, placeholder true) with the        *)
(* strategy's own method tag.                                              *)
(***************************************************************************)
C5_FailureBecomesErrorResult ==
    FailedGeneratorCalls # {} =>
        \/ /\ op \in BaseMethods
           /\ pc = "returned"
           /\ IsErrorResult(result, op)
        \/ /\ op = "truthscore"
           /\ pc \in {"score", "returned", "raised"}
           /\ IsErrorResult(base_result, base_config)
           /\ pc = "raised" => ScorerCalls # {}

\* the second backend call of a self-consistency run raised
C5_Witness ==
    /\ op = "self_consistency"
    /\ pc = "returned"
    /\ Len(calls) = 2
    /\ FailedGeneratorCalls = {2}
    /\ IsErrorResult(result, "self_consistency")

(***************************************************************************)
(* C6.  When the scorer decides REFUSE, the gated result is exactly:       *)
(* the refusal template as answer, refused true, the scorer's truth score  *)
(* and decision (and its whole result as score_details), the gate's own    *)
(* method tag and the base strategy's method tag.  No field is taken from  *)
(* the base answer: the text fields differ from it whenever the base       *)
(* answer is not itself the template text.                                 *)
(***************************************************************************)
C6_RefuseReplacesAnswer ==
    (GateReturned /\ ScoreReturned.decision = "REFUSE") =>
        /\ result = [answer |-> RefusalTemplate,
                     method |-> "truthscore",
                     base_method |-> base_config,
                     truth_score |-> ScoreReturned.truth_score,
                     decision |-> "REFUSE",
                     refused |-> TRUE,
                     score_details |-> ScoreReturned]
        /\ base_result.answer # RefusalTemplate =>
              base_result.answer \notin
                  {result.answer, result.method, result.base_method, result.decision}

\* a real backend answer was refused
C6_Witness ==
    /\ GateReturned
    /\ ScoreReturned.decision = "REFUSE"
    /\ base_result.answer = "Paris is the capital"
    /\ result.refused = TRUE

(***************************************************************************)
(* C7.  When the scorer decides ACCEPT or QUALIFIED, the gated result has  *)
(* refused false and the base strategy's answer, unchanged, whichever      *)
(* strategy is wrapped.                                                    *)
(***************************************************************************)
C7_AcceptPassesAnswer ==
    (GateReturned /\ ScoreReturned.decision \in {"ACCEPT", "QUALIFIED"}) =>
        /\ result.refused = FALSE
        /\ result.answer = base_result.answer
        /\ result.decision = ScoreReturned.decision

\* a QUALIFIED decision on an aggregated self-consistency answer
C7_Witness ==
    /\ GateReturned
    /\ ScoreReturned.decision = "QUALIFIED"
    /\ base_config = "self_consistency"
    /\ "agreement" \in DOMAIN base_result
    /\ result.answer = base_result.answer

(***************************************************************************)
(* C8 (as claimed).  When the scorer call raises, TruthScoreInference      *)
(* .generate does not raise: it returns a result marked as unscored.       *)
(***************************************************************************)
ScorerFailed ==
    /\ op = "truthscore"
    /\ ScorerCalls # {}
    /\ ~calls[Len(calls)].outcome.ok

\* C8 (as claimed): a raising scorer call ends in a returned, unscored result
C8_ScorerFailureContained ==
    ScorerFailed => (pc = "returned" /\ "unscored" \in DOMAIN result)

(***************************************************************************)
(* C9.  Annotator.annotate is total and follows the precedence             *)
(*   (1) refusal and ground truth absent or containing "unknown"           *)
(*         -> Correct Refusal                                              *)
(*   (2) else correct, not hedged, not refusal -> Correct Answer           *)
(*   (3) else incorrect, not hedged, not refusal -> Overconfident Error    *)
(*   (4) else incorrect and hedged -> Hedged but Incorrect                 *)
(*   (5) else Correct Answer.                                              *)
(* C9_PrecedenceAsClaimed reads "containing" as plain containment;         *)
(* C9_Precedence reads it as containment compared case-insensitively.      *)
(***************************************************************************)
\* m occurs in s, compared case-insensitively position by position
ContainsCI(m, s) ==
    \E i \in 1..(Len(s) - Len(m) + 1) :
        \A j \in 1..Len(m) :
            LowerChar(SubSeq(s, i + j - 1, i + j - 1)) = LowerChar(SubSeq(m, j, j))

\* m occurs in s, character for character
ContainsExact(m, s) ==
    \E i \in 1..(Len(s) - Len(m) + 1) :
        \A j \in 1..Len(m) : SubSeq(s, i + j - 1, i + j - 1) = SubSeq(m, j, j)

\* the category the precedence gives; gtUncertain: the ground truth is
\* absent or contains "unknown"
PrecedenceCategory(gtUncertain, is_correct, is_refusal, is_hedged) ==
    LET rule1 == is_refusal /\ gtUncertain
        rule2 == ~rule1 /\ is_correct = Some(TRUE) /\ ~is_hedged /\ ~is_refusal
        rule3 == ~rule1 /\ ~rule2 /\ is_correct = Some(FALSE) /\ ~is_hedged
                    /\ ~is_refusal
        rule4 == ~rule1 /\ ~rule2 /\ ~rule3 /\ is_correct = Some(FALSE)
                    /\ is_hedged
    IN  CASE rule1 -> CORRECT_REFUSAL
          [] rule2 -> CORRECT_ANSWER
          [] rule3 -> OVERCONFIDENT_ERROR
          [] rule4 -> HEDGED_BUT_INCORRECT
          [] OTHER -> CORRECT_ANSWER

AnnotateReturned == op = "annotate" /\ pc = "returned"

\* C9 (as claimed): the precedence, with "unknown" contained character for
\* character in the ground truth
C9_PrecedenceAsClaimed ==
    AnnotateReturned =>
        /\ result \in OutcomeCategory
        /\ result = PrecedenceCategory(
                        \/ args.ground_truth = None
                        \/ ContainsExact("unknown", args.ground_truth[1]),
                        args.is_correct, args.is_refusal, args.is_hedged)

\* C9 (amended): the precedence, with "unknown" contained in the ground truth
\* compared case-insensitively; every argument combination gets a category
C9_Precedence ==
    AnnotateReturned =>
        /\ result \in OutcomeCategory
        /\ result = PrecedenceCategory(
                        \/ args.ground_truth = None
                        \/ ContainsCI("unknown", args.ground_truth[1]),
                        args.is_correct, args.is_refusal, args.is_hedged)

\* a refusal annotated against a ground truth that spells "Unknown"
C9_Witness ==
    /\ AnnotateReturned
    /\ args.is_refusal
    /\ args.ground_truth = Some("The answer is Unknown.")
    /\ args.is_correct = Some(FALSE)
    /\ result = CORRECT_REFUSAL

(***************************************************************************)
(* C10.  detect_hedging (detect_refusal) returns true exactly when one of  *)
(* the sixteen hedge markers (nine refusal markers) occurs in the answer,  *)
(* compared case-insensitively; the four examples come out as stated.      *)
(***************************************************************************)
ClaimedHedgeMarkers ==
    {"maybe", "perhaps", "possibly", "might", "could", "uncertain", "unclear",
     "unknown", "probably", "likely", "seems", "appears", "suggest",
     "indicate", "may", "not sure"}

ClaimedRefusalMarkers ==
    {"cannot", "cannot provide", "unable to", "don't know", "no information",
     "insufficient", "not confident", "cannot answer", "unable to answer"}

\* C10: each detector is true exactly when a marker of its list occurs in
\* the answer, compared case-insensitively
C10_DetectorsMatchMarkers ==
    /\ (op = "detect_hedging" /\ pc = "returned") =>
          /\ result <=> \E m \in ClaimedHedgeMarkers : ContainsCI(m, args.answer)
          /\ args.answer = "Maybe it rains" => result
          /\ args.answer = "It is definitely true" => ~result
    /\ (op = "detect_refusal" /\ pc = "returned") =>
          /\ result <=> \E m \in ClaimedRefusalMarkers : ContainsCI(m, args.answer)
          /\ args.answer = "I cannot answer that" => result
          /\ args.answer = "Paris is the capital" => ~result

\* the capitalised example is detected as hedged
C10_Witness ==
    /\ op = "detect_hedging"
    /\ pc = "returned"
    /\ args.answer = "Maybe it rains"
    /\ result = TRUE

(***************************************************************************)
(* Notions for the call-order properties C18-C20.                          *)
(***************************************************************************)
\* the generator calls of the log
GeneratorCalls == {i \in 1..Len(calls) : calls[i].to = "generator"}

\* SelfConsistency.generate is the strategy running, directly or as the base
SCActive ==
    \/ op = "self_consistency"
    \/ op = "truthscore" /\ base_config = "self_consistency"

\* TruthScoreInference.generate has ended, by returning or by raising
GateEnded == op = "truthscore" /\ pc \in {"returned", "raised"}

(***************************************************************************)
(* C18 (as claimed).  Every TruthScoreInference.generate call that has     *)
(* ended made exactly one scorer call, after every generator call, with    *)
(* the prompt and the answer the base returned; every generator call was   *)
(* made by the base strategy.                                              *)
(***************************************************************************)
C18_BaseThenScorerOnce ==
    GateEnded =>
        /\ Cardinality(ScorerCalls) = 1
        /\ ScorerCalls = {Len(calls)}
        /\ calls[Len(calls)].question = args.prompt
        /\ calls[Len(calls)].answer = base_result.answer
        /\ \A i \in GeneratorCalls :
              calls[i].by = base_config /\ calls[i].prompt = args.prompt

(***************************************************************************)
(* C19 (as claimed).  With a backend and no failing call, a                *)
(* SelfConsistency.generate that has returned made exactly num_samples     *)
(* generator calls and returned num_samples samples, the i-th being the    *)
(* answer of the i-th call.                                                *)
(***************************************************************************)
C19_ExactlyNCalls ==
    \A r \in SCOutput :
        (client /\ FailedGeneratorCalls = {}) =>
            /\ Cardinality(GeneratorCalls) = num_samples
            /\ "samples" \in DOMAIN r
            /\ Len(r.samples) = num_samples
            /\ \A i \in 1..Len(r.samples) :
                  i \in GeneratorCalls /\ r.samples[i] = calls[i].outcome.content

(***************************************************************************)
(* C20.  Once a sample call of SelfConsistency.generate has raised, it is  *)
(* the only failed call and the last generator call, the collected samples *)
(* are dropped, and the result is an error result with neither samples nor *)
(* agreement table; a result with an agreement table has num_samples       *)
(* samples and saw no failed call.                                         *)
(***************************************************************************)
C20_FailureDiscardsSamples ==
    /\ (SCActive /\ FailedGeneratorCalls # {}) =>
          LET r == IF op = "truthscore" THEN base_result ELSE result
          IN  /\ Cardinality(FailedGeneratorCalls) = 1
              /\ \A k \in FailedGeneratorCalls :
                    \A i \in GeneratorCalls : i <= k
              /\ samples = <<>>
              /\ IsErrorResult(r, "self_consistency")
              /\ "samples" \notin DOMAIN r
              /\ "agreement" \notin DOMAIN r
    /\ \A r \in SCOutput :
          "agreement" \in DOMAIN r =>
              /\ Len(r.samples) = num_samples
              /\ FailedGeneratorCalls = {}

\* the third of three sample calls raised after two answers were collected
C20_Witness ==
    /\ op = "self_consistency"
    /\ pc = "returned"
    /\ num_samples = 3
    /\ Len(calls) = 3
    /\ FailedGeneratorCalls = {3}
    /\ "samples" \notin DOMAIN result

(***************************************************************************)
(* Notions for the properties of the runs, C11-C17.                        *)
(***************************************************************************)
\* a summary has been returned by summarize_results
Summarized == rpc = "summarized"

\* the sum of a method's four category counts
CategoryTotal(counts) ==
    counts[CORRECT_ANSWER] + counts[OVERCONFIDENT_ERROR]
        + counts[CORRECT_REFUSAL] + counts[HEDGED_BUT_INCORRECT]

(***************************************************************************)
(* C11 (as claimed).  In every summary of either runner, the four category *)
(* counts of every method sum to total_prompts.                            *)
(***************************************************************************)
C11_CountsSumToTotal ==
    Summarized =>
        \A method \in MethodSet :
            CategoryTotal(summary.by_method[method]) = summary.total_prompts

(***************************************************************************)
(* C12.  In every summary of either runner, by_method has an entry for     *)
(* each of the four methods and, under it, for each of the four            *)
(* categories; by_category has an entry for each category and, under it,   *)
(* for each method; and by_category[c][m] = by_method[m][c].               *)
(***************************************************************************)
C12_ByCategoryIsTranspose ==
    Summarized =>
        /\ DOMAIN summary.by_method = MethodSet
        /\ DOMAIN summary.by_category = OutcomeCategory
        /\ \A method \in MethodSet, category \in OutcomeCategory :
              /\ DOMAIN summary.by_method[method] = OutcomeCategory
              /\ DOMAIN summary.by_category[category] = MethodSet
              /\ summary.by_category[category][method]
                     = summary.by_method[method][category]

\* a summary of two prompts in which one method has counts and another has
\* only zeros
C12_Witness ==
    /\ Summarized
    /\ summary.total_prompts = 2
    /\ \E method \in MethodSet : CategoryTotal(summary.by_method[method]) = 2
    /\ \E method \in MethodSet : CategoryTotal(summary.by_method[method]) = 0

\* the ground truth information annotate_results used for the i-th prompt
GtInfoAt(i) == GtInfo(ground_truth_map, annotated[i].prompt)

\* a run of the experiment runner over prompts A and B has been summarized;
\* the gate refused on A and accepted on B, whose answer the ground truth
\* marks correct and the detectors find neither hedged nor a refusal
RefusedThenAccepted ==
    /\ runner = "experiment"
    /\ Summarized
    /\ Len(annotated) = 2
    /\ annotated[1].truthscore.decision = "REFUSE"
    /\ annotated[2].truthscore.decision = "ACCEPT"
    /\ DictGetOpt(GtInfoAt(2), "is_correct") = Some(TRUE)
    /\ ~detect_hedging(annotated[2].truthscore.answer)
    /\ ~detect_refusal(annotated[2].truthscore.answer)

\* the gated method's counts: one correct refusal, one correct answer
OneRefusalOneAnswer ==
    summary.by_method["truthscore"] =
        [category \in OutcomeCategory |->
            IF category \in {CORRECT_REFUSAL, CORRECT_ANSWER} THEN 1 ELSE 0]

(***************************************************************************)
(* C13 (as claimed).  Whenever the gate refused on prompt A and accepted   *)
(* a correct, unhedged, non-refusing answer on prompt B, the summary       *)
(* counts for the gated method are CORRECT_REFUSAL = 1, CORRECT_ANSWER = 1 *)
(* and 0 elsewhere.                                                        *)
(***************************************************************************)
C13_GatedEndToEndAsClaimed ==
    (RefusedThenAccepted /\ annotated[1].prompt # annotated[2].prompt)
        => OneRefusalOneAnswer

(***************************************************************************)
(* C13 (amended).  The same, provided the ground truth of prompt A has no  *)
(* answer or one that contains "unknown" in any letter case.               *)
(***************************************************************************)
C13_GatedEndToEnd ==
    (/\ RefusedThenAccepted
     /\ \/ "answer" \notin DOMAIN GtInfoAt(1)
        \/ ContainsCI("unknown", GtInfoAt(1).answer))
        => OneRefusalOneAnswer

\* two different prompts, the first with the ground truth answer "Unknown"
C13_Witness ==
    /\ RefusedThenAccepted
    /\ prompts[1] # prompts[2]
    /\ "answer" \in DOMAIN GtInfoAt(1)
    /\ ContainsCI("unknown", GtInfoAt(1).answer)
    /\ OneRefusalOneAnswer

(***************************************************************************)
(* C14 (as claimed).  ExperimentRunner.run_all_prompts is never left by an *)
(* exception, and once it has returned there is one result per prompt, in  *)
(* prompt order, each with an entry for all four methods.                  *)
(***************************************************************************)
C14_RunNeverAborts ==
    runner = "experiment" =>
        /\ rpc # "aborted"
        /\ rpc \in {"ran", "annotated", "summarized"} =>
              /\ Len(results) = Len(prompts)
              /\ \A i \in 1..Len(results) :
                    /\ results[i].prompt = prompts[i]
                    /\ MethodSet \subseteq DOMAIN results[i]

\* a strategy result built from a failed or missing backend call
IsFailedResult(r) ==
    \/ "error" \in DOMAIN r
    \/ "placeholder" \in DOMAIN r /\ r.placeholder

(***************************************************************************)
(* C15 (as claimed).  An annotated result of the experiment runner that    *)
(* came from a failed external call or is a placeholder carries a category *)
(* that is none of the four ordinary outcome categories.                   *)
(***************************************************************************)
C15_FailuresCountedApart ==
    (runner = "experiment" /\ rpc \in {"annotated", "summarized"}) =>
        \A i \in 1..Len(annotated), method \in MethodSet :
            IsFailedResult(annotated[i][method]) =>
                annotated[i].annotations[method].category \notin OutcomeCategory

ManualRan == runner = "manual" /\ rpc \in {"ran", "annotated", "summarized"}

\* annotate_results has returned the annotated results of the manual run
ManualAnnotated == runner = "manual" /\ rpc \in {"annotated", "summarized"}

\* the entry of a method in a result holds a score
HasScore(entry) == "truth_score" \in DOMAIN entry

(***************************************************************************)
(* C17 (as claimed).  In the results of the manual runner every supplied   *)
(* (non-empty) answer of every method holds a score and, once annotated,   *)
(* has an annotation entry.                                                *)
(***************************************************************************)
C17_EveryAnswerScoredAsClaimed ==
    ManualRan =>
        \A i \in 1..Len(results), method \in MethodSet :
            SuppliedAnswer(answers, prompts[i], method) # "" =>
                /\ HasScore(results[i][method])
                /\ ManualAnnotated => method \in DOMAIN annotated[i].annotations

(***************************************************************************)
(* C17 (amended).  In the results of the manual runner each method's entry *)
(* holds the supplied answer; exactly the non-empty truthscore answers     *)
(* hold a score, which a scorer call on that prompt and answer returned;   *)
(* and, once annotated, exactly the non-empty answers have an annotation   *)
(* entry.                                                                  *)
(***************************************************************************)
C17_AnswersScoredAndAnnotated ==
    ManualRan =>
        \A i \in 1..Len(results), method \in MethodSet :
            LET answer == SuppliedAnswer(answers, prompts[i], method)
                entry  == results[i][method]
            IN  /\ entry.answer = answer
                /\ HasScore(entry) <=> (method = "truthscore" /\ answer # "")
                /\ HasScore(entry) =>
                      \E k \in 1..Len(calls) :
                          /\ calls[k] = ScorerCall(prompts[i], answer,
                                                   calls[k].outcome)
                          /\ calls[k].outcome.ok
                          /\ calls[k].outcome.score = entry.score_details
                          /\ entry.truth_score = entry.score_details.truth_score
                          /\ entry.decision = entry.score_details.decision
                /\ ManualAnnotated =>
                      (method \in DOMAIN annotated[i].annotations <=> answer # "")

\* two prompts annotated: a scored truthscore answer, an unscored vanilla
\* answer with an annotation, and an empty answer without one
C17_Witness ==
    /\ ManualAnnotated
    /\ Len(results) = 2
    /\ HasScore(results[1].truthscore)
    /\ results[1].vanilla.answer # ""
    /\ "vanilla" \in DOMAIN annotated[1].annotations
    /\ results[2].rag.answer = ""
    /\ "rag" \notin DOMAIN annotated[2].annotations

(***************************************************************************)
(* Notions for C21.                                                        *)
(***************************************************************************)
\* annotate_results has returned and was called without ground truth
AnnotatedWithoutGroundTruth ==
    /\ rpc \in {"annotated", "summarized"}
    /\ ground_truth_map = None

(***************************************************************************)
(* C21.  When either runner annotates without ground truth, every          *)
(* annotation entry is CORRECT_REFUSAL if the answer is detected as a      *)
(* refusal and CORRECT_ANSWER otherwise, the "[ERROR] ..." text of a failed *)
(* backend call is CORRECT_ANSWER, and every summary of those annotations  *)
(* counts 0 OVERCONFIDENT_ERROR and 0 HEDGED_BUT_INCORRECT for every       *)
(* method.                                                                 *)
(***************************************************************************)
C21_NoGroundTruthNoErrors ==
    AnnotatedWithoutGroundTruth =>
        /\ \A i \in 1..Len(annotated) :
              \A method \in DOMAIN annotated[i].annotations :
                  annotated[i].annotations[method].category =
                      IF detect_refusal(annotated[i][method].answer)
                      THEN CORRECT_REFUSAL
                      ELSE CORRECT_ANSWER
        /\ \A i \in 1..Len(annotated) :
              \A method \in DOMAIN annotated[i].annotations :
                  "error" \in DOMAIN annotated[i][method] =>
                      annotated[i].annotations[method].category = CORRECT_ANSWER
        /\ Summarized =>
              \A method \in MethodSet :
                  /\ summary.by_method[method][OVERCONFIDENT_ERROR] = 0
                  /\ summary.by_method[method][HEDGED_BUT_INCORRECT] = 0

\* a summary without ground truth over a hedged answer counted as correct
\* answer and a refusal counted as correct refusal
C21_Witness ==
    /\ AnnotatedWithoutGroundTruth
    /\ Summarized
    /\ \E i \in 1..Len(annotated) :
          /\ "vanilla" \in DOMAIN annotated[i].annotations
          /\ annotated[i].annotations["vanilla"].is_hedged
          /\ annotated[i].annotations["vanilla"].category = CORRECT_ANSWER
          /\ "truthscore" \in DOMAIN annotated[i].annotations
          /\ annotated[i].annotations["truthscore"].is_refusal
          /\ annotated[i].annotations["truthscore"].category = CORRECT_REFUSAL
    /\ summary.by_method["vanilla"][CORRECT_ANSWER] >= 1
    /\ summary.by_method["truthscore"][CORRECT_REFUSAL] >= 1

\* annotate was called on an unhedged refusal with a ground truth
UnhedgedRefusalWithGroundTruth ==
    /\ AnnotateReturned
    /\ args.is_refusal
    /\ ~args.is_hedged
    /\ args.ground_truth # None

\* OVERCONFIDENT_ERROR is returned exactly for a wrong, unhedged answer that
\* is no refusal
OverconfidentExactly ==
    AnnotateReturned =>
        (result = OVERCONFIDENT_ERROR <=>
            /\ args.is_correct = Some(FALSE)
            /\ ~args.is_hedged
            /\ ~args.is_refusal)

(***************************************************************************)
(* C22 (as claimed).  annotate returns CORRECT_ANSWER for an unhedged      *)
(* refusal whose ground truth is present and does not contain "unknown"    *)
(* character for character, whatever is_correct is; and it returns         *)
(* OVERCONFIDENT_ERROR exactly when is_correct is false and the answer is  *)
(* neither hedged nor a refusal.                                           *)
(***************************************************************************)
C22_RefusalFallsToCorrectAnswerAsClaimed ==
    /\ (/\ UnhedgedRefusalWithGroundTruth
        /\ ~ContainsExact("unknown", args.ground_truth[1]))
           => result = CORRECT_ANSWER
    /\ OverconfidentExactly

(***************************************************************************)
(* C22 (amended).  The same, for a ground truth that does not contain      *)
(* "unknown" in any letter case.                                           *)
(***************************************************************************)
C22_RefusalFallsToCorrectAnswer ==
    /\ (/\ UnhedgedRefusalWithGroundTruth
        /\ ~ContainsCI("unknown", args.ground_truth[1]))
           => result = CORRECT_ANSWER
    /\ OverconfidentExactly

\* an unhedged refusal marked wrong against the ground truth "Paris"
C22_Witness ==
    /\ UnhedgedRefusalWithGroundTruth
    /\ args.ground_truth = Some("Paris")
    /\ args.is_correct = Some(FALSE)
    /\ result = CORRECT_ANSWER

\* the gate has ended after its base returned an error or placeholder result
GateEndedOnFailedBase ==
    /\ GateEnded
    /\ base_result # None
    /\ IsFailedResult(base_result)

\* the keys of every result the gate returns
GatedResultKeys ==
    {"answer", "method", "base_method", "truth_score", "decision", "refused",
     "score_details"}

(***************************************************************************)
(* C23.  When the base returned an error or placeholder result, the gate   *)
(* has called the scorer, as its last call, on the prompt and on that      *)
(* result's text; and a result it returns follows the scorer's decision    *)
(* and has exactly the keys of any gated result, so neither 'error' nor    *)
(* 'placeholder'.                                                          *)
(***************************************************************************)
C23_FailedBaseStillGated ==
    GateEndedOnFailedBase =>
        /\ ScorerCalls = {Len(calls)}
        /\ calls[Len(calls)].question = args.prompt
        /\ calls[Len(calls)].answer = base_result.answer
        /\ pc = "returned" =>
              /\ DOMAIN result = GatedResultKeys
              /\ "error" \notin DOMAIN result
              /\ "placeholder" \notin DOMAIN result
              /\ result.decision = ScoreReturned.decision
              /\ result.refused = (ScoreReturned.decision = "REFUSE")
              /\ result.answer = IF ScoreReturned.decision = "REFUSE"
                                 THEN RefusalTemplate
                                 ELSE base_result.answer

\* the "[ERROR] ..." text of a failed generation accepted by the scorer
C23_Witness ==
    /\ GateEndedOnFailedBase
    /\ pc = "returned"
    /\ "error" \in DOMAIN base_result
    /\ result.decision = "ACCEPT"
    /\ result.answer = base_result.answer

(***************************************************************************)
(* Notions for C24: the call log of a run of the experiment runner, cut    *)
(* into one segment per prompt, each ending with the gate's scorer call.   *)
(***************************************************************************)
\* the index of the first call issued for the prompt whose scorer call is k
SegmentStart(k) ==
    LET earlier == {i \in ScorerCalls : i < k}
    IN  IF earlier = {} THEN 1
        ELSE (CHOOSE i \in earlier : \A x \in earlier : x <= i) + 1

\* the index of the scorer call issued for the i-th prompt
ScorerCallOf(i) ==
    CHOOSE k \in ScorerCalls : Cardinality({x \in ScorerCalls : x <= k}) = i

\* the calls j..k are those of one run_single_prompt with a backend: vanilla,
\* rag, the samples, vanilla again inside the gate, then the scorer on the
\* answer of that second generation
SegmentInOrder(j, k) ==
    /\ k - j >= 4
    /\ k - j <= 3 + num_samples
    /\ \A i \in j..(k - 1) :
          calls[i].to = "generator" /\ calls[i].prompt = calls[k].question
    /\ calls[j].by = "vanilla"
    /\ calls[j + 1].by = "rag"
    /\ \A i \in (j + 2)..(k - 2) : calls[i].by = "self_consistency"
    /\ calls[k - 1].by = "vanilla"
    /\ calls[k].answer =
           VanillaResult(TRUE, calls[k].question, calls[k - 1].outcome).answer

\* the keys of the dict run_single_prompt is building, in the order added
PartialKeysInOrder ==
    partial # None =>
        DOMAIN partial \in
            {{"prompt"}, {"prompt", "vanilla"}, {"prompt", "vanilla", "rag"},
             {"prompt", "vanilla", "rag", "self_consistency"}}

(***************************************************************************)
(* C24.  In a run of the experiment runner the entries of a prompt are     *)
(* built in the order vanilla, rag, self_consistency, truthscore; with a   *)
(* backend the calls of each prompt are one vanilla call, one rag call,    *)
(* the sample calls, a second vanilla call and the scorer call on the      *)
(* answer of that second call; the 'vanilla' entry holds the answer of the *)
(* first call and an unrefused 'truthscore' entry that of the second.      *)
(***************************************************************************)
C24_OrderAndSecondGeneration ==
    runner = "experiment" =>
        /\ PartialKeysInOrder
        /\ client => \A k \in ScorerCalls : SegmentInOrder(SegmentStart(k), k)
        /\ \A i \in 1..Len(results) :
              LET k == ScorerCallOf(i)
                  j == SegmentStart(k)
              IN  /\ calls[k].question = results[i].prompt
                  /\ results[i].truthscore.decision # "REFUSE" =>
                        results[i].truthscore.answer = calls[k].answer
                  /\ client =>
                        results[i].vanilla.answer =
                            VanillaResult(TRUE, results[i].prompt,
                                          calls[j].outcome).answer

\* an accepted gated answer that differs from the answer under 'vanilla'
C24_Witness ==
    /\ runner = "experiment"
    /\ client
    /\ Len(results) >= 1
    /\ results[1].truthscore.decision \in {"ACCEPT", "QUALIFIED"}
    /\ results[1].truthscore.answer # results[1].vanilla.answer
    /\ Cardinality({i \in GeneratorCalls :
                       calls[i].by = "vanilla"
                           /\ i <= ScorerCallOf(1)}) = 2

====
